---- MODULE Spec2Model ----
(***************************************************************************)
(* A model of ShadowTree (ReactCommon/fabric/uimanager/ShadowTree.cpp):    *)
(* the root slot guarded by commitMutex_, the commit paths                 *)
(* complete(children), constraintLayout, completeByReplacingShadowNode,    *)
(* the transactional core complete(old, new) / commit, the two emitter     *)
(* passes of toggleEventEmitters and emitLayoutEvents.                     *)
(*                                                                         *)
(* Shadow nodes live in a heap `nodes` keyed by identity; a commit         *)
(* compares identities, never structure.  Every thread executes the code   *)
(* of one public call at a time, one step per action.                      *)
(***************************************************************************)
EXTENDS Integers, Sequences, FiniteSets, TLC

\* The calling threads.
Threads == {"t1", "t2"}

\* How many public calls are started in one behaviour.
MaxOps == 3

NoThread == "nobody"

---------------------------------------------------------------------------
(* Identities, tags, props, emitters                                       *)

RootTag == "surface"

NoTag == "none"

\* The order in which the differ visits tags.
TagOrder == <<"A", "B", "C", "P", "Q">>

Tags == {TagOrder[i] : i \in DOMAIN TagOrder}

\* Node identities: a kind, the call that made the node, a position.
NoNode == <<"null", 0, 0>>

InitialRoot == <<"root", 0, 0>>

NodeA == <<"A", 0, 0>>

NodeB == <<"B", 0, 0>>

NodeB2 == <<"B", 1, 0>>

NodeC == <<"C", 0, 0>>

NodeP == <<"P", 0, 0>>

NodeQ == <<"Q", 0, 0>>

StaticNodes == {NodeA, NodeB, NodeB2, NodeC, NodeP, NodeQ}

\* Props: whether they are ViewProps, the onLayout flag, and a revision that
\* tells two prop objects apart.
ViewProps(onLayout, rev) == [view |-> TRUE, onLayout |-> onLayout, rev |-> rev]

OtherProps(rev) == [view |-> FALSE, onLayout |-> FALSE, rev |-> rev]

\* An event emitter: its identity and whether it is a ViewEventEmitter.
Emitter(id, view) == [id |-> id, view |-> view]

NoEmitter == Emitter(NoTag, FALSE)

\* The no-op ViewEventEmitter the constructor gives the root.
noopEventEmitter == Emitter(RootTag, TRUE)

EmitterIds == Tags \cup {RootTag}

EmptyLayoutMetrics == 0

ShadowNode(tag, children, props, emitter, metrics) ==
    [tag |-> tag, children |-> children, props |-> props,
     eventEmitter |-> emitter, layoutMetrics |-> metrics,
     sealed |-> FALSE, laidOut |-> FALSE]

\* The nodes the component tree hands to the ShadowTree.
UpstreamNodes ==
    (NodeA :> ShadowNode("A", <<>>, ViewProps(TRUE, 0), Emitter("A", TRUE), 1))
 @@ (NodeB :> ShadowNode("B", <<>>, ViewProps(TRUE, 0), Emitter("B", TRUE), 2))
 @@ (NodeB2 :> ShadowNode("B", <<>>, ViewProps(TRUE, 1), Emitter("B", TRUE), 2))
 @@ (NodeC :> ShadowNode("C", <<>>, ViewProps(FALSE, 0), Emitter("C", TRUE), 3))
 @@ (NodeP :> ShadowNode("P", <<NodeA, NodeB>>, OtherProps(0),
                         Emitter("P", FALSE), 4))
 @@ (NodeQ :> ShadowNode("Q", <<>>, OtherProps(0), Emitter("Q", TRUE), 5))

\* The child lists callers pass to complete(children).
ChildLists == {<<>>, <<NodeA, NodeB, NodeC>>, <<NodeP, NodeQ>>}

\* The (old, new) pairs callers pass to completeByReplacingShadowNode.
Replacements == {<<NodeB, NodeB2>>}

---------------------------------------------------------------------------
VARIABLES
    nodes,            \* the heap: node identity -> shadow node
    rootShadowNode_,  \* the root slot
    commitMutex,      \* owner of commitMutex_ (NoThread when free)
    dispatchMutex,    \* owner of EventEmitter::DispatchMutex()
    delegate_,        \* whether a delegate is set
    th,               \* per thread: position and locals of its call
    emitters,         \* per emitter: enable() and disable() calls received
    strayLayouts,     \* onLayout calls received by an emitter not enabled
    fx,               \* per thread: what its current call did so far
    stats             \* calls started, roots installed, calls returned true

vars == <<nodes, rootShadowNode_, commitMutex, dispatchMutex, delegate_, th,
          emitters, strayLayouts, fx, stats>>

---------------------------------------------------------------------------
(* Trees in the heap                                                       *)

Range(seq) == {seq[i] : i \in DOMAIN seq}

\* The nodes strictly below n in heap h.
RECURSIVE Descendants(_, _)
Descendants(h, n) ==
    UNION {{c} \cup Descendants(h, c) : c \in Range(h[n].children)}

\* The node below root r that carries a tag (tags are unique within a tree).
NodeWithTag(h, r, tag) ==
    LET hit == {n \in Descendants(h, r) : h[n].tag = tag}
    IN  IF hit = {} THEN NoNode ELSE CHOOSE n \in hit : TRUE

TagsOf(h, r) == {h[n].tag : n \in Descendants(h, r)}

\* The tag of the parent of the node carrying `tag` below r.
ParentTag(h, r, tag) ==
    LET ps == {p \in {r} \cup Descendants(h, r) :
                  \E c \in Range(h[p].children) : h[c].tag = tag}
    IN  IF ps = {} THEN NoTag ELSE h[CHOOSE p \in ps : TRUE].tag

\* ShadowNode::constructAncestorPath: the ancestors of target below (and
\* including) ancestor, nearest parent first; empty when target is the
\* ancestor itself or is not below it.  found tells the two apart.
RECURSIVE constructAncestorPath(_, _, _)
constructAncestorPath(h, target, ancestor) ==
    IF target = ancestor THEN [found |-> TRUE, path |-> <<>>]
    ELSE LET kids == h[ancestor].children
             hits == {i \in DOMAIN kids :
                         constructAncestorPath(h, target, kids[i]).found}
         IN  IF hits = {} THEN [found |-> FALSE, path |-> <<>>]
             ELSE LET first == CHOOSE i \in hits : \A j \in hits : i <= j
                  IN  [found |-> TRUE,
                       path |-> Append(
                           constructAncestorPath(h, target, kids[first]).path,
                           ancestor)]

\* std::replace on a copy of a child list.
StdReplace(children, oldChild, newChild) ==
    [i \in DOMAIN children |->
        IF children[i] = oldChild THEN newChild ELSE children[i]]

\* ShadowNode::clone / the RootShadowNode copy constructor with a fragment
\* that replaces the children: a fresh, unsealed node sharing the rest.
CloneWithChildren(node, children) ==
    [node EXCEPT !.children = children, !.sealed = FALSE, !.laidOut = FALSE]

\* cloneRootShadowNode: a fresh root with new RootProps (new constraints).
CloneWithProps(node) ==
    [node EXCEPT !.props = [@ EXCEPT !.rev = 1 - @],
                 !.sealed = FALSE, !.laidOut = FALSE]

\* The view of a node the differ compares and the mutations carry.
ShadowView(h, n) ==
    [tag |-> h[n].tag, props |-> h[n].props,
     layoutMetrics |-> h[n].layoutMetrics, eventEmitter |-> h[n].eventEmitter]

EmptyShadowView ==
    [tag |-> NoTag, props |-> OtherProps(0),
     layoutMetrics |-> EmptyLayoutMetrics, eventEmitter |-> NoEmitter]

Mutation(type, oldView, newView) ==
    [type |-> type, oldChildShadowView |-> oldView,
     newChildShadowView |-> newView]

\* The view of the node carrying `tag` below r; the empty view when none does.
ViewOfTag(h, r, tag) ==
    IF NodeWithTag(h, r, tag) = NoNode THEN EmptyShadowView
    ELSE ShadowView(h, NodeWithTag(h, r, tag))

\* The mutations of one type for the tags wanted, in tag order.
MutationsOfType(type, wanted, oldViews, newViews) ==
    LET picked == SelectSeq(TagOrder, LAMBDA tag : tag \in wanted)
    IN  [i \in DOMAIN picked |->
            Mutation(type, oldViews[picked[i]], newViews[picked[i]])]

\* calculateShadowViewMutations: Remove and Delete for what left the tree,
\* Create and Insert for what entered it, Update for what stayed under the
\* same parent with a different view.
calculateShadowViewMutations(h, oldRoot, newRoot) ==
    LET oldTags == TagsOf(h, oldRoot)
        newTags == TagsOf(h, newRoot)
        oldView == [tag \in Tags |-> ViewOfTag(h, oldRoot, tag)]
        newView == [tag \in Tags |-> ViewOfTag(h, newRoot, tag)]
        none == [tag \in Tags |-> EmptyShadowView]
        moved == {tag \in oldTags \cap newTags :
                     ParentTag(h, oldRoot, tag) # ParentTag(h, newRoot, tag)}
        updated == {tag \in (oldTags \cap newTags) \ moved :
                       oldView[tag] # newView[tag]}
    IN  MutationsOfType("Remove", (oldTags \ newTags) \cup moved, oldView, none)
     \o MutationsOfType("Delete", oldTags \ newTags, oldView, none)
     \o MutationsOfType("Create", newTags \ oldTags, none, newView)
     \o MutationsOfType("Insert", (newTags \ oldTags) \cup moved, none, newView)
     \o MutationsOfType("Update", updated, oldView, newView)

---------------------------------------------------------------------------
(* The two notification passes, as the calls they make                     *)

EmitterCall(call, view, type) ==
    [call |-> call, emitter |-> view.eventEmitter.id, type |-> type]

\* One pass that enables and disables in the order of the mutation list.
toggleEventEmitters_OnePass(mutations) ==
    LET toggling == SelectSeq(mutations, LAMBDA m : m.type \in {"Create", "Delete"})
    IN  [i \in DOMAIN toggling |->
            IF toggling[i].type = "Create"
            THEN EmitterCall("enable", toggling[i].newChildShadowView, "Create")
            ELSE EmitterCall("disable", toggling[i].oldChildShadowView, "Delete")]

\* A second pass that takes Remove for Delete.
toggleEventEmitters_RemoveToo(mutations) ==
    LET creates == SelectSeq(mutations, LAMBDA m : m.type = "Create")
        deletes == SelectSeq(mutations, LAMBDA m : m.type \in {"Delete", "Remove"})
    IN  [i \in DOMAIN creates |->
            EmitterCall("enable", creates[i].newChildShadowView, creates[i].type)]
     \o [i \in DOMAIN deletes |->
            EmitterCall("disable", deletes[i].oldChildShadowView, deletes[i].type)]

\* ShadowTree::toggleEventEmitters: enable() for every Create mutation's new
\* emitter, then disable() for every Delete mutation's old emitter.
toggleEventEmitters(mutations) ==
    LET creates == SelectSeq(mutations, LAMBDA m : m.type = "Create")
        deletes == SelectSeq(mutations, LAMBDA m : m.type = "Delete")
    IN  [i \in DOMAIN creates |->
            EmitterCall("enable", creates[i].newChildShadowView, creates[i].type)]
     \o [i \in DOMAIN deletes |->
            EmitterCall("disable", deletes[i].oldChildShadowView, deletes[i].type)]

\* A notifier that takes Create mutations for candidates too.
FiresLayout_CreateToo(m) ==
    /\ m.type \in {"Create", "Insert", "Update"}
    /\ m.newChildShadowView.eventEmitter.view
    /\ ~(m.newChildShadowView.props.view /\ ~m.newChildShadowView.props.onLayout)
    /\ ~(/\ m.type # "Update"
         /\ m.oldChildShadowView.layoutMetrics = m.newChildShadowView.layoutMetrics)

\* Whether emitLayoutEvents calls onLayout for a mutation.
FiresLayout(m) ==
    /\ m.type \in {"Insert", "Update"}
    /\ m.newChildShadowView.eventEmitter.view
    /\ ~(m.newChildShadowView.props.view /\ ~m.newChildShadowView.props.onLayout)
    /\ ~(/\ m.type # "Update"
         /\ m.oldChildShadowView.layoutMetrics = m.newChildShadowView.layoutMetrics)

\* ShadowTree::emitLayoutEvents: the onLayout calls, in mutation order.
emitLayoutEvents(mutations) ==
    LET firing == SelectSeq(mutations, FiresLayout)
    IN  [i \in DOMAIN firing |->
            [emitter |-> firing[i].newChildShadowView.eventEmitter.id,
             type |-> firing[i].type,
             layoutMetrics |-> firing[i].newChildShadowView.layoutMetrics]]

\* EventEmitter::enable / disable, as the emitter sees them: the calls
\* counted, the state they leave, and whether a call ever repeated the one
\* before it (or a disable came first).
Toggle(state, call) ==
    IF call = "enable"
    THEN [state EXCEPT !.enables = @ + 1, !.enabled = TRUE,
                       !.repeated = @ \/ state.enabled]
    ELSE [state EXCEPT !.disables = @ + 1, !.enabled = FALSE,
                       !.repeated = @ \/ ~state.enabled]

\* The emitters after a sequence of enable/disable calls.
RECURSIVE ApplyCalls(_, _)
ApplyCalls(em, calls) ==
    IF calls = <<>> THEN em
    ELSE ApplyCalls([em EXCEPT ![Head(calls).emitter] = Toggle(@, Head(calls).call)],
                    Tail(calls))

\* The onLayout calls that reach an emitter that is not enabled.
Stray(em, layouts) ==
    {[emitter |-> layouts[i].emitter,
      after |-> IF em[layouts[i].emitter].disables > 0 THEN "disable" ELSE "nothing"] :
        i \in {j \in DOMAIN layouts : ~em[layouts[j].emitter].enabled}}

---------------------------------------------------------------------------
(* State after construction                                                *)

NoCall ==
    [pc |-> "idle", op |-> "none", callNo |-> 0,
     oldRootShadowNode |-> NoNode, newRootShadowNode |-> NoNode,
     rootRead |-> NoNode, oldShadowNode |-> NoNode, newShadowNode |-> NoNode,
     sharedChildren |-> <<>>, mutations |-> <<>>, result |-> "none"]

NoEffects ==
    [toggles |-> <<>>, layouts |-> <<>>, notified |-> 0, installed |-> FALSE]

\* ShadowTree::ShadowTree: an empty root with the surface's tag, RootProps
\* and the no-op emitter.
Init ==
    /\ nodes = UpstreamNodes @@
               (InitialRoot :> ShadowNode(RootTag, <<>>, ViewProps(FALSE, 0),
                                          noopEventEmitter, EmptyLayoutMetrics))
    /\ rootShadowNode_ = InitialRoot
    /\ commitMutex = NoThread
    /\ dispatchMutex = NoThread
    /\ delegate_ = FALSE
    /\ th = [t \in Threads |-> NoCall]
    /\ emitters = [e \in EmitterIds |->
                      [enables |-> 0, disables |-> 0, enabled |-> FALSE,
                       repeated |-> FALSE]]
    /\ strayLayouts = {}
    /\ fx = [t \in Threads |-> NoEffects]
    /\ stats = [started |-> 0, installed |-> 0, returnedTrue |-> 0]

---------------------------------------------------------------------------
(* Helpers of the actions                                                  *)

\* A mutex that is not recursive: the owner cannot take it again.
CanLock_NotRecursive(mutex, t) == mutex = NoThread

\* std::lock_guard<std::recursive_mutex> can be taken: free, or already ours.
CanLock(mutex, t) == mutex \in {NoThread, t}

\* ShadowTree::getRootShadowNode: the slot, read under commitMutex_.
getRootShadowNode == rootShadowNode_

\* The roots other threads still hold in their locals.
HeldBy(t) ==
    UNION {{th[u].oldRootShadowNode, th[u].newRootShadowNode, th[u].rootRead}
           \cup Range(th[u].sharedChildren) : u \in Threads \ {t}}

\* The heap once thread t dropped the references of its previous call:
\* shared_ptr frees what nobody holds.
Release(t) ==
    LET held == ({rootShadowNode_} \cup HeldBy(t)) \ {NoNode}
        live == StaticNodes \cup held
                \cup UNION {Descendants(nodes, r) : r \in held}
    IN  [n \in live |-> nodes[n]]

CanStart(t) ==
    /\ th[t].pc = "idle"
    /\ stats.started < MaxOps
    /\ CanLock(commitMutex, t)

RootId(k) == <<"root", k, 0>>

CloneId(k, i) == <<"clone", k, i>>

\* A loop that edits the ancestors' child lists in place instead of cloning.
RECURSIVE ReplaceLoop_InPlace(_, _, _, _, _, _)
ReplaceLoop_InPlace(h, ancestors, i, oldChild, newChild, k) ==
    LET children == StdReplace(h[ancestors[i]].children, oldChild, newChild)
        edited == [h EXCEPT ![ancestors[i]].children = children]
    IN  IF i = Len(ancestors)
        THEN [heap |-> edited, sharedChildren |-> children]
        ELSE ReplaceLoop_InPlace(edited, ancestors, i + 1,
                                 ancestors[i], ancestors[i], k)

\* The loop of completeByReplacingShadowNode from ancestor i on: every
\* ancestor gets a clone whose child list has oldChild replaced by newChild.
\* The clone of the last ancestor, the root, is a temporary: only its child
\* list is used.
RECURSIVE ReplaceLoop(_, _, _, _, _, _)
ReplaceLoop(h, ancestors, i, oldChild, newChild, k) ==
    LET children == StdReplace(h[ancestors[i]].children, oldChild, newChild)
        clone == CloneWithChildren(h[ancestors[i]], children)
    IN  IF i = Len(ancestors)
        THEN [heap |-> h, sharedChildren |-> children]
        ELSE ReplaceLoop(h @@ (CloneId(k, i) :> clone), ancestors, i + 1,
                         ancestors[i], CloneId(k, i), k)

\* RootShadowNode::layout (lines 65 and 135) on the heap.
\* Layout writes into a node that is not sealed yet.
LayoutRoot(h, r) ==
    IF h[r].sealed THEN h ELSE [h EXCEPT ![r].laidOut = TRUE]

\* ShadowNode::sealRecursive on the heap.
SealRecursive(h, r) ==
    [n \in DOMAIN h |->
        IF n \in {r} \cup Descendants(h, r)
        THEN [h[n] EXCEPT !.sealed = TRUE] ELSE h[n]]

---------------------------------------------------------------------------
(* The public calls                                                        *)

\* complete(rootChildNodes), lines 93-97: read the root, build the new root
\* from it with the children replaced; complete(old, new) follows.
EnterComplete(t, call, heap, rootChildNodes) ==
    LET oldRoot == getRootShadowNode
        newRoot == RootId(call.callNo)
    IN  /\ nodes' = heap @@
                    (newRoot :> CloneWithChildren(heap[oldRoot], rootChildNodes))
        /\ th' = [th EXCEPT ![t] =
                     [call EXCEPT !.pc = "prepare",
                                  !.oldRootShadowNode = oldRoot,
                                  !.newRootShadowNode = newRoot]]

StartComplete(t, rootChildNodes) ==
    /\ CanStart(t)
    /\ EnterComplete(t, [NoCall EXCEPT !.op = "complete",
                                       !.callNo = stats.started + 1],
                     Release(t), rootChildNodes)
    /\ fx' = [fx EXCEPT ![t] = NoEffects]
    /\ stats' = [stats EXCEPT !.started = @ + 1]
    /\ UNCHANGED <<rootShadowNode_, commitMutex, dispatchMutex, delegate_,
                   emitters, strayLayouts>>

\* constraintLayout: read the root, clone it with new constraints.
StartConstraintLayout(t) ==
    LET k == stats.started + 1
        heap == Release(t)
        oldRoot == getRootShadowNode
    IN  /\ CanStart(t)
        /\ nodes' = heap @@ (RootId(k) :> CloneWithProps(heap[oldRoot]))
        /\ th' = [th EXCEPT ![t] =
                     [NoCall EXCEPT !.pc = "prepare", !.op = "constraintLayout",
                                    !.callNo = k,
                                    !.oldRootShadowNode = oldRoot,
                                    !.newRootShadowNode = RootId(k)]]
        /\ fx' = [fx EXCEPT ![t] = NoEffects]
        /\ stats' = [stats EXCEPT !.started = @ + 1]
        /\ UNCHANGED <<rootShadowNode_, commitMutex, dispatchMutex, delegate_,
                       emitters, strayLayouts>>

\* A measure that stores the root it laid out in the slot.
Measure_Installs(t) ==
    LET k == stats.started + 1
        heap == Release(t)
    IN  /\ CanStart(t)
        /\ nodes' = LayoutRoot(
               heap @@ (RootId(k) :> CloneWithProps(heap[getRootShadowNode])),
               RootId(k))
        /\ rootShadowNode_' = RootId(k)
        /\ th' = [th EXCEPT ![t] =
                     [NoCall EXCEPT !.op = "measure", !.callNo = k,
                                    !.result = "size"]]
        /\ fx' = [fx EXCEPT ![t] = NoEffects]
        /\ stats' = [stats EXCEPT !.started = @ + 1]
        /\ UNCHANGED <<commitMutex, dispatchMutex, delegate_, emitters,
                       strayLayouts>>

\* measure, lines 63-66: read the root under commitMutex_, clone it with the
\* new constraints, lay the clone out, return its size; the clone is a local
\* and is gone when the call returns.
Measure(t) ==
    LET k == stats.started + 1
        heap == Release(t)
        laidOut == LayoutRoot(
            heap @@ (RootId(k) :> CloneWithProps(heap[getRootShadowNode])),
            RootId(k))
    IN  /\ CanStart(t)
        /\ nodes' = [n \in DOMAIN heap |-> laidOut[n]]
        /\ th' = [th EXCEPT ![t] =
                     [NoCall EXCEPT !.op = "measure", !.callNo = k,
                                    !.result = "size"]]
        /\ fx' = [fx EXCEPT ![t] = NoEffects]
        /\ stats' = [stats EXCEPT !.started = @ + 1]
        /\ UNCHANGED <<rootShadowNode_, commitMutex, dispatchMutex, delegate_,
                       emitters, strayLayouts>>

\* A replacement that does not test for an empty ancestor path and goes on
\* to commit the children of the current root.
StartReplace_NoCheck(t, oldShadowNode, newShadowNode) ==
    LET k == stats.started + 1
        heap == Release(t)
        rootShadowNode == getRootShadowNode
        ancestors == constructAncestorPath(heap, oldShadowNode, rootShadowNode).path
        built == IF Len(ancestors) = 0
                 THEN [heap |-> heap,
                       sharedChildren |-> heap[rootShadowNode].children]
                 ELSE ReplaceLoop(heap, ancestors, 1, oldShadowNode,
                                  newShadowNode, k)
    IN  /\ CanStart(t)
        /\ nodes' = built.heap
        /\ th' = [th EXCEPT ![t] =
                     [NoCall EXCEPT !.op = "replace", !.callNo = k,
                                    !.rootRead = rootShadowNode,
                                    !.oldShadowNode = oldShadowNode,
                                    !.newShadowNode = newShadowNode,
                                    !.pc = "replaceComplete",
                                    !.sharedChildren = built.sharedChildren]]
        /\ fx' = [fx EXCEPT ![t] = NoEffects]
        /\ stats' = [stats EXCEPT !.started = @ + 1]
        /\ UNCHANGED <<rootShadowNode_, commitMutex, dispatchMutex, delegate_,
                       emitters, strayLayouts>>

\* completeByReplacingShadowNode, lines 105-126: read the root, resolve the
\* ancestor path, return false when it is empty, else rebuild the chain.
StartReplace(t, oldShadowNode, newShadowNode) ==
    LET k == stats.started + 1
        heap == Release(t)
        rootShadowNode == getRootShadowNode
        ancestors == constructAncestorPath(heap, oldShadowNode, rootShadowNode).path
        built == ReplaceLoop(heap, ancestors, 1, oldShadowNode, newShadowNode, k)
        call == [NoCall EXCEPT !.op = "replace", !.callNo = k,
                               !.rootRead = rootShadowNode,
                               !.oldShadowNode = oldShadowNode,
                               !.newShadowNode = newShadowNode]
    IN  /\ CanStart(t)
        /\ IF Len(ancestors) = 0
           THEN /\ nodes' = heap
                /\ th' = [th EXCEPT ![t] = [call EXCEPT !.result = "false"]]
           ELSE /\ nodes' = built.heap
                /\ th' = [th EXCEPT ![t] =
                             [call EXCEPT !.pc = "replaceComplete",
                                          !.sharedChildren = built.sharedChildren]]
        /\ fx' = [fx EXCEPT ![t] = NoEffects]
        /\ stats' = [stats EXCEPT !.started = @ + 1]
        /\ UNCHANGED <<rootShadowNode_, commitMutex, dispatchMutex, delegate_,
                       emitters, strayLayouts>>

\* completeByReplacingShadowNode, line 128: complete(sharedChildren).
ReplaceComplete(t) ==
    /\ th[t].pc = "replaceComplete"
    /\ CanLock(commitMutex, t)
    /\ EnterComplete(t, th[t], nodes, th[t].sharedChildren)
    /\ UNCHANGED <<rootShadowNode_, commitMutex, dispatchMutex, delegate_,
                   emitters, strayLayouts, fx, stats>>

---------------------------------------------------------------------------
(* complete(oldRootShadowNode, newRootShadowNode), step by step            *)

\* A complete that forgets to seal.
LaidOutAndSealed_NoSeal(h, r) == LayoutRoot(h, r)

\* A complete that seals before it lays out.
LaidOutAndSealed_SealFirst(h, r) == LayoutRoot(SealRecursive(h, r), r)

\* The heap after lines 135-136: layout, then sealRecursive.
LaidOutAndSealed(h, r) == SealRecursive(LayoutRoot(h, r), r)

\* A complete that hands the differ its two roots the wrong way round.
Prepare_DiffReversed(t) ==
    /\ th[t].pc = "prepare"
    /\ nodes' = LaidOutAndSealed(nodes, th[t].newRootShadowNode)
    /\ th' = [th EXCEPT ![t].pc = "commit",
                        ![t].mutations = calculateShadowViewMutations(
                            nodes', th[t].newRootShadowNode, th[t].oldRootShadowNode)]
    /\ UNCHANGED <<rootShadowNode_, commitMutex, dispatchMutex, delegate_,
                   emitters, strayLayouts, fx, stats>>

\* lines 135-139: layout, sealing, and the mutations from the old root to
\* the new one, all on the caller's own references, before any lock.
Prepare(t) ==
    /\ th[t].pc = "prepare"
    /\ nodes' = LaidOutAndSealed(nodes, th[t].newRootShadowNode)
    /\ th' = [th EXCEPT ![t].pc = "commit",
                        ![t].mutations = calculateShadowViewMutations(
                            nodes', th[t].oldRootShadowNode, th[t].newRootShadowNode)]
    /\ UNCHANGED <<rootShadowNode_, commitMutex, dispatchMutex, delegate_,
                   emitters, strayLayouts, fx, stats>>

\* A commit that accepts every base.
BaseIsCurrent_Always(t) == TRUE

\* A commit that compares the child lists of the two roots, not the roots.
BaseIsCurrent_Structural(t) ==
    nodes[th[t].oldRootShadowNode].children = nodes[rootShadowNode_].children

\* line 161: the identity check of commit.
BaseIsCurrent(t) == th[t].oldRootShadowNode = rootShadowNode_

\* A commit that stores the old root again.
RootToInstall_Old(t) == th[t].oldRootShadowNode

\* line 165: what commit stores in the slot.
RootToInstall(t) == th[t].newRootShadowNode

\* commit, lines 159-165: take commitMutex_, compare, install.  A rejected
\* commit releases the mutex and complete returns false (lines 141-143).
Commit(t) ==
    /\ th[t].pc = "commit"
    /\ CanLock(commitMutex, t)
    /\ IF ~BaseIsCurrent(t)
       THEN /\ th' = [th EXCEPT ![t].pc = "idle", ![t].result = "false"]
            /\ UNCHANGED <<rootShadowNode_, commitMutex, fx, stats>>
       ELSE /\ rootShadowNode_' = RootToInstall(t)
            /\ commitMutex' = t
            /\ th' = [th EXCEPT ![t].pc = "toggle"]
            /\ fx' = [fx EXCEPT ![t].installed = TRUE]
            /\ stats' = [stats EXCEPT !.installed = @ + 1]
    /\ UNCHANGED <<nodes, dispatchMutex, delegate_, emitters, strayLayouts>>

\* toggleEventEmitters, lines 215-227: take the process-wide dispatch mutex
\* and run the two passes.
ToggleEventEmitters(t) ==
    LET calls == toggleEventEmitters(th[t].mutations)
    IN  /\ th[t].pc = "toggle"
        /\ CanLock(dispatchMutex, t)
        /\ dispatchMutex' = t
        /\ emitters' = ApplyCalls(emitters, calls)
        /\ fx' = [fx EXCEPT ![t].toggles =
                     [i \in DOMAIN calls |->
                         [call |-> calls[i].call, emitter |-> calls[i].emitter,
                          type |-> calls[i].type,
                          locked |-> commitMutex = t /\ dispatchMutex' = t]]]
        /\ th' = [th EXCEPT ![t].pc = "unlock"]
        /\ UNCHANGED <<nodes, rootShadowNode_, commitMutex, delegate_,
                       strayLayouts, stats>>

\* A commit whose lock guard outlives it: commitMutex_ stays held.
Unlock_KeepsCommitMutex(t) ==
    /\ th[t].pc = "unlock"
    /\ dispatchMutex' = NoThread
    /\ th' = [th EXCEPT ![t].pc = "emit"]
    /\ UNCHANGED <<nodes, rootShadowNode_, commitMutex, delegate_, emitters,
                   strayLayouts, fx, stats>>

\* The lock guards of toggleEventEmitters (line 228) and commit (line 170).
Unlock(t) ==
    /\ th[t].pc = "unlock"
    /\ dispatchMutex' = NoThread
    /\ commitMutex' = NoThread
    /\ th' = [th EXCEPT ![t].pc = "emit"]
    /\ UNCHANGED <<nodes, rootShadowNode_, delegate_, emitters, strayLayouts,
                   fx, stats>>

\* lines 145-151: emitLayoutEvents(mutations), then the delegate's
\* shadowTreeDidCommit when a delegate is set, then return true.
EmitAndNotify(t) ==
    LET layouts == emitLayoutEvents(th[t].mutations)
    IN  /\ th[t].pc = "emit"
        /\ strayLayouts' = strayLayouts \cup Stray(emitters, layouts)
        /\ fx' = [fx EXCEPT ![t].layouts = layouts,
                            ![t].notified = IF delegate_ THEN @ + 1 ELSE @]
        /\ th' = [th EXCEPT ![t].pc = "idle", ![t].result = "true"]
        /\ stats' = [stats EXCEPT !.returnedTrue = @ + 1]
        /\ UNCHANGED <<nodes, rootShadowNode_, commitMutex, dispatchMutex,
                       delegate_, emitters>>

\* setDelegate, one of the public calls.
SetDelegate(delegate) ==
    /\ delegate # delegate_
    /\ stats.started < MaxOps
    /\ delegate_' = delegate
    /\ stats' = [stats EXCEPT !.started = @ + 1]
    /\ UNCHANGED <<nodes, rootShadowNode_, commitMutex, dispatchMutex, th,
                   emitters, strayLayouts, fx>>

Next ==
    \/ \E t \in Threads, c \in ChildLists : StartComplete(t, c)
    \/ \E t \in Threads : Measure(t)
    \/ \E t \in Threads : StartConstraintLayout(t)
    \/ \E t \in Threads, r \in Replacements : StartReplace(t, r[1], r[2])
    \/ \E t \in Threads : ReplaceComplete(t)
    \/ \E t \in Threads : Prepare(t)
    \/ \E t \in Threads : Commit(t)
    \/ \E t \in Threads : ToggleEventEmitters(t)
    \/ \E t \in Threads : Unlock(t)
    \/ \E t \in Threads : EmitAndNotify(t)
    \/ \E d \in BOOLEAN : SetDelegate(d)

Spec == Init /\ [][Next]_vars

---------------------------------------------------------------------------
(* Vocabulary of the properties                                            *)

\* Thread t's call went through complete(old, new) and has returned.
Returned(t) == th[t].result # "none" /\ th[t].newRootShadowNode # NoNode

\* No thread other than t has called anything so far.
OnlyCaller(t) == \A u \in Threads \ {t} : th[u].op = "none"

\* The root thread t's call found when it started.
RootAtCall(t) ==
    IF th[t].rootRead # NoNode THEN th[t].rootRead ELSE th[t].oldRootShadowNode

\* The candidates that never were, or not yet are, accepted by commit.
Uncommitted ==
    {th[t].newRootShadowNode : t \in {u \in Threads : ~fx[u].installed}} \ {NoNode}

---------------------------------------------------------------------------
(* C1 *)

\* C1: two calls of complete(old, new) on the same, current, old root: when
\* both have returned exactly one returned true, and the root slot holds the
\* winner's candidate, not the loser's.
C1_ExactlyOneWinner ==
    \A t \in Threads : \A u \in Threads \ {t} :
        (/\ Returned(t) /\ Returned(u)
         /\ th[t].oldRootShadowNode = th[u].oldRootShadowNode
         /\ th[t].result = "true" \/ th[u].result = "false")
        => /\ th[t].result = "true"
           /\ th[u].result = "false"
           /\ rootShadowNode_ = th[t].newRootShadowNode
           /\ rootShadowNode_ # th[u].newRootShadowNode

C1_Witness ==
    \E t \in Threads : \E u \in Threads \ {t} :
        /\ Returned(t) /\ Returned(u)
        /\ th[t].oldRootShadowNode = th[u].oldRootShadowNode
        /\ th[t].result = "true" /\ th[u].result = "false"
        /\ rootShadowNode_ = th[t].newRootShadowNode

(* C2 *)

\* C2: a commit whose base is not the current root is rejected with no
\* effect: the step returns false and leaves the root slot and the emitters
\* alone, and the call has enabled or disabled no emitter, fired no onLayout
\* and has not notified the delegate.
C2_Rejects(t) ==
    (/\ th[t].pc = "commit"
     /\ th[t].oldRootShadowNode # rootShadowNode_
     /\ th'[t] # th[t])
    => /\ th'[t].pc = "idle"
       /\ th'[t].result = "false"
       /\ rootShadowNode_' = rootShadowNode_
       /\ emitters' = emitters
       /\ strayLayouts' = strayLayouts
       /\ fx'[t] = NoEffects

C2_NoEffect(t) == th'[t].result = "false" => fx'[t] = NoEffects

C2_RejectedCommitHasNoEffect ==
    [][\A t \in Threads : C2_Rejects(t) /\ C2_NoEffect(t)]_vars

C2_Witness ==
    \E t \in Threads :
        /\ Returned(t) /\ th[t].result = "false"
        /\ th[t].op = "complete"
        /\ delegate_
        /\ rootShadowNode_ # th[t].oldRootShadowNode

(* C3 *)

\* C3: while a single thread issues the calls, a call that returned true
\* leaves its candidate in the root slot, the number of roots installed is
\* the number of calls that returned true, and a call that returned false
\* leaves in the slot the root it found.
C3_SingleThreadRoot ==
    \A t \in Threads :
        (OnlyCaller(t) /\ th[t].pc = "idle")
        => /\ th[t].result = "true" =>
                rootShadowNode_ = th[t].newRootShadowNode
           /\ th[t].result = "false" => rootShadowNode_ = RootAtCall(t)
           /\ stats.installed = stats.returnedTrue

C3_Witness ==
    \E t \in Threads :
        /\ OnlyCaller(t) /\ th[t].pc = "idle"
        /\ stats.returnedTrue = 2
        /\ th[t].result = "false"
        /\ rootShadowNode_ # InitialRoot

(* C4 *)

\* C4: the root slot holds the initial root or a candidate accepted by
\* commit, laid out and sealed down to its leaves; never a candidate that is
\* rejected or not yet committed.
C4_RootIsComplete ==
    /\ rootShadowNode_ \in DOMAIN nodes
    /\ rootShadowNode_ \notin Uncommitted
    /\ rootShadowNode_ # InitialRoot =>
          /\ nodes[rootShadowNode_].laidOut
          /\ \A n \in {rootShadowNode_} \cup Descendants(nodes, rootShadowNode_) :
                nodes[n].sealed

C4_Witness ==
    /\ rootShadowNode_ # InitialRoot
    /\ Descendants(nodes, rootShadowNode_) # {}
    /\ \E t \in Threads : Returned(t) /\ th[t].result = "false"

(* C5 *)

\* C5: a call that returned true replaced the very root it read when it
\* started: a call whose root was replaced by another commit in between
\* returns false.
C5_StaleCallLoses ==
    \A t \in Threads :
        th[t].result = "true" => RootAtCall(t) = th[t].oldRootShadowNode

(* C6 *)

\* The node `after` stands where `before` stood, with oldNode replaced by
\* newNode below it: the replaced node itself, a clone made by call k of a
\* node on the path with the same fields and the children replaced one for
\* one, or the very same node off the path.
RECURSIVE ReplacedIn(_, _, _, _, _, _)
ReplacedIn(h, before, after, oldNode, newNode, k) ==
    IF before = oldNode THEN after = newNode
    ELSE IF oldNode \in Descendants(h, before)
    THEN /\ after \in DOMAIN h
         /\ after # before
         /\ after[1] = "clone" /\ after[2] = k
         /\ h[after].tag = h[before].tag
         /\ h[after].props = h[before].props
         /\ h[after].eventEmitter = h[before].eventEmitter
         /\ Len(h[after].children) = Len(h[before].children)
         /\ \A i \in DOMAIN h[before].children :
               ReplacedIn(h, h[before].children[i], h[after].children[i],
                          oldNode, newNode, k)
    ELSE after = before

\* The nodes the callers passed in are as they were made, sealing aside.
UpstreamUntouched ==
    \A n \in StaticNodes :
        [nodes[n] EXCEPT !.sealed = FALSE] = UpstreamNodes[n]

\* Thread t's replacement returned true and replaced the root it had read.
ReplacedCurrent(t) ==
    /\ th[t].op = "replace"
    /\ th[t].result = "true"
    /\ th[t].rootRead = th[t].oldRootShadowNode

C7_Unreachable(t) ==
    (/\ th[t].pc = "idle"
     /\ th'[t].op = "replace"
     /\ th'[t].callNo # th[t].callNo
     /\ constructAncestorPath(nodes, th'[t].oldShadowNode, rootShadowNode_).path
           = <<>>)
    => /\ th'[t].pc = "idle"
       /\ th'[t].result = "false"
       /\ rootShadowNode_' = rootShadowNode_
       /\ emitters' = emitters
       /\ strayLayouts' = strayLayouts
       /\ fx'[t] = NoEffects

C7_UnreachableReplaceFails == [][\A t \in Threads : C7_Unreachable(t)]_vars

C7_Witness ==
    \E t \in Threads :
        /\ th[t].op = "replace" /\ th[t].result = "false"
        /\ th[t].newRootShadowNode = NoNode
        /\ th[t].rootRead = rootShadowNode_
        /\ rootShadowNode_ # InitialRoot
        /\ delegate_

(* C8 *)

\* Thread t's call installed a root without children over a root without
\* children that a commit had installed: the second teardown commit.
SecondTeardown(t) ==
    /\ th[t].op = "complete"
    /\ fx[t].installed
    /\ th[t].pc \in {"unlock", "emit", "idle"}
    /\ th[t].oldRootShadowNode # InitialRoot
    /\ nodes[th[t].oldRootShadowNode].children = <<>>
    /\ nodes[th[t].newRootShadowNode].children = <<>>

NoDisableInSecondTeardown ==
    \A t \in Threads :
        SecondTeardown(t) =>
            \A i \in DOMAIN fx[t].toggles : fx[t].toggles[i].call # "disable"

\* C8 as stated: every emitter receives enable() at most once and disable()
\* at most once, enable() first, and a second teardown disables nothing.
C8_ToggledAtMostOnce ==
    /\ \A e \in EmitterIds :
          /\ emitters[e].enables <= 1
          /\ emitters[e].disables <= emitters[e].enables
          /\ ~emitters[e].repeated
    /\ NoDisableInSecondTeardown

\* C8 as amended: the enable() and disable() calls an emitter receives
\* alternate, enable() first, and a second teardown disables nothing.
C8_TogglesAlternate ==
    /\ \A e \in EmitterIds :
          /\ ~emitters[e].repeated
          /\ emitters[e].enables - emitters[e].disables \in {0, 1}
          /\ emitters[e].enabled <=> emitters[e].enables > emitters[e].disables
    /\ NoDisableInSecondTeardown

C8_Witness ==
    /\ \E t \in Threads : SecondTeardown(t) /\ th[t].result = "true"
    /\ \E e \in EmitterIds : emitters[e].enables = 1 /\ emitters[e].disables = 1

(* C9 *)

\* C9: no emitter receives onLayout before it was enabled or after it was
\* disabled.
C9_NoStrayLayout == strayLayouts = {}

(* C10 *)

CountOfType(mutations, types) ==
    Len(SelectSeq(mutations, LAMBDA m : m.type \in types))

\* C10: within one commit every enable() comes from a Create mutation, every
\* disable() from a Delete mutation, no enable() follows a disable(), every
\* Create and Delete mutation is served, all of it with commitMutex_ and the
\* dispatch mutex held, and only in a commit that installed its root.
C10_EnablesBeforeDisables ==
    \A t \in Threads :
        LET log == fx[t].toggles
        IN  /\ \A i \in DOMAIN log :
                  /\ log[i].locked
                  /\ log[i].call = "enable" => log[i].type = "Create"
                  /\ log[i].call = "disable" => log[i].type = "Delete"
                  /\ \A j \in DOMAIN log :
                        i < j => ~(log[i].call = "disable" /\ log[j].call = "enable")
            /\ log # <<>> => fx[t].installed
            /\ th[t].pc = "unlock" =>
                  /\ commitMutex = t /\ dispatchMutex = t
                  /\ Len(log) = CountOfType(th[t].mutations, {"Create", "Delete"})

\* A commit whose mutation list holds a Delete before a Create.
C10_Witness ==
    \E t \in Threads :
        /\ th[t].pc = "unlock"
        /\ \E i, j \in DOMAIN th[t].mutations :
              /\ i < j
              /\ th[t].mutations[i].type = "Delete"
              /\ th[t].mutations[j].type = "Create"
        /\ \E i, j \in DOMAIN fx[t].toggles :
              /\ fx[t].toggles[i].call = "enable"
              /\ fx[t].toggles[j].call = "disable"

(* C11 *)

\* Thread t called complete(children) with an empty child list, the call the
\* destructor makes, and the call has returned.
TeardownReturned(t) ==
    /\ th[t].op = "complete"
    /\ Returned(t)
    /\ nodes[th[t].newRootShadowNode].children = <<>>

\* C11: the teardown commit, complete with an empty child list, always
\* returns true and leaves a root without children in the slot it wrote,
\* also when another commit came between its read of the root and its commit.
C11_TeardownAlwaysSucceeds ==
    \A t \in Threads :
        TeardownReturned(t) => /\ th[t].result = "true"
                               /\ fx[t].installed

(* C12 *)

\* The new view of mutation m has a ViewEventEmitter and ViewProps that ask
\* for onLayout.
WantsLayout(m) ==
    /\ m.newChildShadowView.eventEmitter.view
    /\ m.newChildShadowView.props.view
    /\ m.newChildShadowView.props.onLayout

MetricsChanged(m) ==
    m.oldChildShadowView.layoutMetrics # m.newChildShadowView.layoutMetrics

\* Thread t's call invoked onLayout for mutation m, with m's new metrics.
LayoutFired(t, m) ==
    \E i \in DOMAIN fx[t].layouts :
        /\ fx[t].layouts[i].emitter = m.newChildShadowView.eventEmitter.id
        /\ fx[t].layouts[i].type = m.type
        /\ fx[t].layouts[i].layoutMetrics = m.newChildShadowView.layoutMetrics

\* The mutations of thread t's call once it returned true.
Delivered(t) ==
    IF th[t].result = "true" THEN Range(th[t].mutations) ELSE {}

\* C12: an Update mutation whose new view asks for onLayout fires onLayout
\* exactly when its old and new layout metrics differ.
C12_UpdateFiresOnlyOnChange ==
    \A t \in Threads : \A m \in Delivered(t) :
        (m.type = "Update" /\ WantsLayout(m))
        => (LayoutFired(t, m) <=> MetricsChanged(m))

(* C13 *)

\* Every onLayout call of thread t's call came from a mutation of these types.
LayoutsOnlyFrom(t, types) ==
    \A i \in DOMAIN fx[t].layouts : fx[t].layouts[i].type \in types

\* C13 as stated: Create, Insert and Update mutations that ask for onLayout
\* and whose metrics changed fire it; Delete and Remove mutations never do.
C13_CreateInsertUpdateFire ==
    \A t \in Threads :
        /\ LayoutsOnlyFrom(t, {"Create", "Insert", "Update"})
        /\ \A m \in Delivered(t) :
              (/\ m.type \in {"Create", "Insert", "Update"}
               /\ WantsLayout(m) /\ MetricsChanged(m)) => LayoutFired(t, m)

\* C13 as amended: only Insert and Update mutations are candidates: those
\* that ask for onLayout and whose metrics changed fire it; Create, Delete
\* and Remove mutations never do.
C13_InsertUpdateFire ==
    \A t \in Threads :
        /\ LayoutsOnlyFrom(t, {"Insert", "Update"})
        /\ \A m \in Delivered(t) :
              (/\ m.type \in {"Insert", "Update"}
               /\ WantsLayout(m) /\ MetricsChanged(m)) => LayoutFired(t, m)

\* A commit that created and inserted a node asking for onLayout: onLayout
\* fired for the Insert, not for the Create.
C13_Witness ==
    \E t \in Threads : \E created, inserted \in Delivered(t) :
        /\ created.type = "Create" /\ inserted.type = "Insert"
        /\ created.newChildShadowView = inserted.newChildShadowView
        /\ WantsLayout(created) /\ MetricsChanged(created)
        /\ LayoutFired(t, inserted)
        /\ ~LayoutFired(t, created)

(* C14 *)

\* C14: onLayout is invoked only for a mutation whose new view has a
\* ViewEventEmitter and ViewProps with the onLayout flag on.
C14_OnlyRequestedLayoutFires ==
    \A t \in Threads : \A m \in Delivered(t) :
        LayoutFired(t, m) => WantsLayout(m)

(* C15 *)

\* The step is a call of measure by thread t.
MeasureStep(t) == th'[t].op = "measure" /\ th'[t].callNo # th[t].callNo

\* C15: a call of measure leaves the root slot, the emitters, the locks and
\* the delegate as they were, fires no onLayout, edits and frees no node the
\* root or another call holds, and leaves every other thread's call where it
\* was: a commit whose base was the current root still has the current root
\* for its base.
C15_Measure(t) ==
    MeasureStep(t)
    => /\ rootShadowNode_' = rootShadowNode_
       /\ emitters' = emitters
       /\ strayLayouts' = strayLayouts
       /\ delegate_' = delegate_
       /\ commitMutex' = commitMutex /\ dispatchMutex' = dispatchMutex
       /\ fx'[t] = NoEffects
       /\ stats'.installed = stats.installed
       /\ stats'.returnedTrue = stats.returnedTrue
       /\ \A n \in DOMAIN nodes' : n \in DOMAIN nodes /\ nodes'[n] = nodes[n]
       /\ \A u \in Threads \ {t} :
             /\ th'[u] = th[u] /\ fx'[u] = fx[u]
             /\ {th[u].oldRootShadowNode, th[u].newRootShadowNode}
                   \subseteq DOMAIN nodes' \cup {NoNode}
             /\ th[u].oldRootShadowNode = rootShadowNode_
                   => th'[u].oldRootShadowNode = rootShadowNode_'

C15_MeasureIsPure == [][\A t \in Threads : C15_Measure(t)]_vars

\* A measure made while another thread's call, built from the current root,
\* was on its way to commit.
C15_Witness ==
    \E t \in Threads : \E u \in Threads \ {t} :
        /\ th[t].op = "measure" /\ th[t].result = "size"
        /\ th[t].callNo > th[u].callNo
        /\ th[u].pc = "commit"
        /\ th[u].oldRootShadowNode = rootShadowNode_
        /\ rootShadowNode_ # InitialRoot

(* C16 *)

\* The enable() and disable() calls thread t's call made are those of the
\* two passes over its mutation list, in their order.
TogglesDone(t) ==
    LET calls == toggleEventEmitters(th[t].mutations)
    IN  /\ Len(fx[t].toggles) = Len(calls)
        /\ \A i \in DOMAIN calls :
              /\ fx[t].toggles[i].call = calls[i].call
              /\ fx[t].toggles[i].emitter = calls[i].emitter

\* The candidate of thread t's call is laid out and sealed.
Prepared(t) ==
    LET new == th[t].newRootShadowNode
    IN  /\ nodes[new].laidOut
        /\ \A n \in {new} \cup Descendants(nodes, new) : nodes[n].sealed

\* The mutation list of thread t's call is the diff from its old root to
\* its candidate.
Diffed(t) ==
    th[t].mutations = calculateShadowViewMutations(
        nodes, th[t].oldRootShadowNode, th[t].newRootShadowNode)

\* Where a call of complete(old, new) stands tells what it has done so far.
C16_Steps(t) ==
    /\ th[t].pc \in {"replaceComplete", "prepare", "commit"} => fx[t] = NoEffects
    /\ th[t].pc \in {"commit", "toggle", "unlock", "emit"} => Prepared(t)
    /\ th[t].pc = "commit" => Diffed(t)
    /\ th[t].pc = "toggle" =>
          /\ fx[t] = [NoEffects EXCEPT !.installed = TRUE]
          /\ commitMutex = t
    /\ th[t].pc \in {"unlock", "emit"} =>
          /\ fx[t].installed /\ TogglesDone(t)
          /\ fx[t].layouts = <<>> /\ fx[t].notified = 0
    /\ th[t].result = "true" =>
          /\ Prepared(t)
          /\ fx[t].installed /\ TogglesDone(t)
          /\ fx[t].layouts = emitLayoutEvents(th[t].mutations)
          /\ fx[t].notified \in {0, 1}
    /\ (fx[t].layouts # <<>> \/ fx[t].notified > 0) => th[t].result = "true"

\* The last step of a successful call: layout events, then one delegate call
\* when a delegate is set, then true, with or without a delegate.
C16_LastStep(t) ==
    (th[t].pc = "emit" /\ th'[t] # th[t])
    => /\ th'[t].pc = "idle" /\ th'[t].result = "true"
       /\ fx'[t].layouts = emitLayoutEvents(th[t].mutations)
       /\ fx'[t].notified = IF delegate_ THEN 1 ELSE 0
       /\ rootShadowNode_' = rootShadowNode_
       /\ emitters' = emitters

\* C16: a call of complete(old, new) that returns true has laid out and
\* sealed its candidate and computed the diff before commit, has passed the
\* identity check, installed the candidate and run both emitter passes under
\* the lock, and only then has emitted the layout events and called the
\* delegate, once when a delegate is set; without one it still returns true.
C16_StepsInOrder ==
    /\ [](\A t \in Threads : C16_Steps(t))
    /\ [][\A t \in Threads : C16_LastStep(t)]_vars

\* A call that returned true without a delegate, after toggling emitters and
\* firing layout events.
C16_Witness ==
    \E t \in Threads :
        /\ th[t].result = "true"
        /\ ~delegate_ /\ fx[t].notified = 0
        /\ fx[t].toggles # <<>> /\ fx[t].layouts # <<>>

(* C17 *)

\* The phases of a commit in which the thread is inside commit's lock guard.
InCommitLock(t) == th[t].pc \in {"toggle", "unlock"}

\* C17: a thread holds commitMutex_ exactly from the identity check to the
\* end of the two emitter passes, and the dispatch mutex only within that; it
\* holds neither during layout, sealing, the diff, the layout events or the
\* delegate call, so that another thread can take commitMutex_ meanwhile.
C17_LockOnlyAroundSwap ==
    \A t \in Threads :
        /\ commitMutex = t <=> InCommitLock(t)
        /\ dispatchMutex = t <=> th[t].pc = "unlock"
        /\ dispatchMutex = t => commitMutex = t
        /\ ~InCommitLock(t) =>
              \A u \in Threads \ {t} : CanLock(commitMutex, u)

\* One thread is between its commit and its layout events while another,
\* which read the root after that commit, is inside the lock.
C17_Witness ==
    \E t \in Threads : \E u \in Threads \ {t} :
        /\ th[t].pc = "emit"
        /\ th[u].pc = "toggle" /\ commitMutex = u
        /\ th[u].oldRootShadowNode = th[t].newRootShadowNode

---------------------------------------------------------------------------
(* The locks alone, on several surfaces                                    *)
(*                                                                         *)
(* A second view of the same code that keeps only what decides whether a   *)
(* call returns: per surface its commitMutex_ and the generation of its    *)
(* root, the one dispatch mutex of the process, and the position of every  *)
(* thread.  Surface s1 has a delegate that calls back into the tree from   *)
(* shadowTreeDidCommit; s2 has none.  Trees and emitters stay as           *)
(* constructed.                                                            *)

Surfaces == {"s1", "s2"}

NoSurface == "nowhere"

\* How many public calls are started in one behaviour of the lock view.
MaxCalls == 3

\* What a delegate does in shadowTreeDidCommit: read the root, or run a
\* function under synchronize.
DelegateCalls == {"getRoot", "synchronize"}

LockIdle == [pc |-> "idle", op |-> "none", surface |-> NoSurface, base |-> 0,
             then |-> "idle", result |-> "none"]

LockInit ==
    /\ nodes = UpstreamNodes
    /\ rootShadowNode_ = [s \in Surfaces |-> 0]
    /\ commitMutex = [s \in Surfaces |-> NoThread]
    /\ dispatchMutex = NoThread
    /\ delegate_ = [s \in Surfaces |-> s = "s1"]
    /\ th = [t \in Threads |-> LockIdle]
    /\ emitters = [e \in EmitterIds |->
                      [enables |-> 0, disables |-> 0, enabled |-> FALSE,
                       repeated |-> FALSE]]
    /\ strayLayouts = {}
    /\ fx = [t \in Threads |-> NoEffects]
    /\ stats = [started |-> 0, installed |-> 0, returnedTrue |-> 0]

\* A thread enters a public call on a surface: a commit path (complete,
\* constraintLayout, completeByReplacingShadowNode all start by reading the
\* root), getRootShadowNode, or synchronize.
Call(t, s, op) ==
    /\ th[t].pc = "idle"
    /\ stats.started < MaxCalls
    /\ th' = [th EXCEPT ![t] =
                 [LockIdle EXCEPT !.op = op, !.surface = s,
                     !.pc = IF op = "synchronize" THEN "synchronize" ELSE "getRoot",
                     !.then = IF op = "complete" THEN "commit" ELSE "idle"]]
    /\ stats' = [stats EXCEPT !.started = @ + 1]
    /\ UNCHANGED <<nodes, rootShadowNode_, commitMutex, dispatchMutex,
                   delegate_, emitters, strayLayouts, fx>>

\* getRootShadowNode, lines 49-50: the lock guard is taken and released
\* around the read; the caller goes on where it was told to.
GetRootShadowNode(t) ==
    /\ th[t].pc = "getRoot"
    /\ CanLock(commitMutex[th[t].surface], t)
    /\ th' = [th EXCEPT ![t].base = rootShadowNode_[th[t].surface],
                        ![t].pc = th[t].then,
                        ![t].result = IF th[t].then = "idle" /\ @ = "none"
                                      THEN "done" ELSE @]
    /\ UNCHANGED <<nodes, rootShadowNode_, commitMutex, dispatchMutex,
                   delegate_, emitters, strayLayouts, fx, stats>>

\* commit, lines 159-165: take commitMutex_, compare, return false or
\* install and keep the lock for toggleEventEmitters.
CommitLock(t) ==
    LET s == th[t].surface
    IN  /\ th[t].pc = "commit"
        /\ CanLock(commitMutex[s], t)
        /\ IF th[t].base # rootShadowNode_[s]
           THEN /\ th' = [th EXCEPT ![t].pc = "idle", ![t].result = "false"]
                /\ UNCHANGED <<rootShadowNode_, commitMutex>>
           ELSE /\ rootShadowNode_' = [rootShadowNode_ EXCEPT ![s] = @ + 1]
                /\ commitMutex' = [commitMutex EXCEPT ![s] = t]
                /\ th' = [th EXCEPT ![t].pc = "toggle"]
        /\ UNCHANGED <<nodes, dispatchMutex, delegate_, emitters, strayLayouts,
                       fx, stats>>

\* toggleEventEmitters, line 215: take the dispatch mutex of the process.
DispatchLock(t) ==
    /\ th[t].pc = "toggle"
    /\ CanLock(dispatchMutex, t)
    /\ dispatchMutex' = t
    /\ th' = [th EXCEPT ![t].pc = "passes"]
    /\ UNCHANGED <<nodes, rootShadowNode_, commitMutex, delegate_, emitters,
                   strayLayouts, fx, stats>>

\* The two passes are done: line 228 releases the dispatch mutex, line 170
\* commitMutex_.
CommitUnlock(t) ==
    /\ th[t].pc = "passes"
    /\ dispatchMutex' = NoThread
    /\ commitMutex' = [commitMutex EXCEPT ![th[t].surface] = NoThread]
    /\ th' = [th EXCEPT ![t].pc = "emit"]
    /\ UNCHANGED <<nodes, rootShadowNode_, delegate_, emitters, strayLayouts,
                   fx, stats>>

\* lines 145-151: emitLayoutEvents, then the delegate, which reads the root
\* or runs a function under synchronize before complete returns true.
NotifyDelegate(t, reentry) ==
    /\ th[t].pc = "emit"
    /\ IF delegate_[th[t].surface]
       THEN th' = [th EXCEPT ![t].pc = reentry, ![t].then = "idle",
                             ![t].result = "true"]
       ELSE th' = [th EXCEPT ![t].pc = "idle", ![t].result = "true"]
    /\ UNCHANGED <<nodes, rootShadowNode_, commitMutex, dispatchMutex,
                   delegate_, emitters, strayLayouts, fx, stats>>

\* synchronize, line 54: take commitMutex_ and keep it while function runs.
SynchronizeLock(t) ==
    /\ th[t].pc = "synchronize"
    /\ CanLock(commitMutex[th[t].surface], t)
    /\ commitMutex' = [commitMutex EXCEPT ![th[t].surface] = t]
    /\ th' = [th EXCEPT ![t].pc = "function"]
    /\ UNCHANGED <<nodes, rootShadowNode_, dispatchMutex, delegate_, emitters,
                   strayLayouts, fx, stats>>

\* synchronize, line 55: the function reads the root through
\* getRootShadowNode, which takes commitMutex_ once more on the same thread.
Function(t) ==
    /\ th[t].pc = "function"
    /\ CanLock(commitMutex[th[t].surface], t)
    /\ th' = [th EXCEPT ![t].base = rootShadowNode_[th[t].surface],
                        ![t].pc = "synchronized"]
    /\ UNCHANGED <<nodes, rootShadowNode_, commitMutex, dispatchMutex,
                   delegate_, emitters, strayLayouts, fx, stats>>

\* synchronize, line 56: the lock guard ends.
SynchronizeUnlock(t) ==
    /\ th[t].pc = "synchronized"
    /\ commitMutex' = [commitMutex EXCEPT ![th[t].surface] = NoThread]
    /\ th' = [th EXCEPT ![t].pc = "idle",
                        ![t].result = IF @ = "none" THEN "done" ELSE @]
    /\ UNCHANGED <<nodes, rootShadowNode_, dispatchMutex, delegate_, emitters,
                   strayLayouts, fx, stats>>

\* The steps of a thread inside a call.
LockStep(t) ==
    \/ GetRootShadowNode(t)
    \/ CommitLock(t)
    \/ DispatchLock(t)
    \/ CommitUnlock(t)
    \/ \E reentry \in DelegateCalls: NotifyDelegate(t, reentry)
    \/ SynchronizeLock(t)
    \/ Function(t)
    \/ SynchronizeUnlock(t)

LockNext ==
    \/ \E t \in Threads, s \in Surfaces,
          op \in {"complete", "getRoot", "synchronize"} : Call(t, s, op)
    \/ \E t \in Threads : LockStep(t)

\* Every thread that can take a step of its call takes one in the end: the
\* threads are scheduled, and a behaviour holds MaxCalls calls.
LockSpec ==
    LockInit /\ [][LockNext]_vars /\ \A t \in Threads : WF_vars(LockStep(t))

(* C18 *)

\* Thread t stands before a lock that another thread holds.
Blocked(t) ==
    \/ /\ th[t].pc \in {"getRoot", "commit", "synchronize", "function"}
       /\ ~CanLock(commitMutex[th[t].surface], t)
    \/ /\ th[t].pc = "toggle"
       /\ ~CanLock(dispatchMutex, t)

\* Some thread is blocked only while another one, inside a call, is not; and
\* the dispatch mutex is only ever taken, and held, inside commitMutex_.
C18_NoDeadlock ==
    /\ \A t \in Threads :
          Blocked(t) => \E u \in Threads \ {t} :
                            th[u].pc # "idle" /\ ~Blocked(u)
    /\ \A t \in Threads :
          dispatchMutex = t =>
             /\ th[t].pc = "passes"
             /\ commitMutex[th[t].surface] = t

\* C18: with threads committing, reading and synchronizing on two surfaces
\* that share the dispatch mutex, and a delegate that re-enters its surface,
\* no deadlock is reachable and every call returns.
C18_EveryCallReturns ==
    /\ []C18_NoDeadlock
    /\ \A t \in Threads : (th[t].pc # "idle") ~> (th[t].pc = "idle")

\* The delegate of a commit runs a function under synchronize, holding
\* commitMutex_ while the function is about to take it again, and the other
\* thread waits for that lock.
C18_Witness ==
    \E t \in Threads : \E u \in Threads \ {t} :
        /\ th[t].op = "complete" /\ th[t].pc = "function"
        /\ commitMutex[th[t].surface] = t
        /\ Blocked(u)

---------------------------------------------------------------------------
(* C19 *)

\* The step installs a root: it is the commit of a thread whose old root is
\* the root replaced, whose candidate is the root installed and whose
\* mutation list is the diff from the one to the other.
C19_Install ==
    rootShadowNode_' # rootShadowNode_
    => \E t \in Threads :
          /\ th[t].pc = "commit" /\ th'[t].pc = "toggle"
          /\ th[t].oldRootShadowNode = rootShadowNode_
          /\ th[t].newRootShadowNode = rootShadowNode_'
          /\ th[t].mutations = calculateShadowViewMutations(
                 nodes, rootShadowNode_, rootShadowNode_')

\* From the install to the return the call keeps its roots and its list.
C19_SameList(t) ==
    (th[t].pc \in {"toggle", "unlock", "emit"} /\ th'[t] # th[t])
    => /\ th'[t].mutations = th[t].mutations
       /\ th'[t].oldRootShadowNode = th[t].oldRootShadowNode
       /\ th'[t].newRootShadowNode = th[t].newRootShadowNode

\* The emitter calls and the onLayout calls of a call that installed its
\* root are those of the diff from the root replaced to the root installed.
C19_Notified(t) ==
    (fx[t].installed /\ th[t].pc # "toggle")
    => /\ TogglesDone(t)
       /\ th[t].result = "true" =>
             fx[t].layouts = emitLayoutEvents(th[t].mutations)

\* C19: the root slot changes only by a commit whose mutation list is the
\* diff from the root it replaces to the root it installs, and that list is
\* the one used for the emitter passes, the layout events and the delegate:
\* the lists of successive successful commits chain, from the initial root
\* on, without a gap.
C19_MutationsChain ==
    /\ [][C19_Install /\ \A t \in Threads : C19_SameList(t)]_vars
    /\ [](\A t \in Threads : C19_Notified(t))

\* Two successful commits by two threads, the second on top of the first,
\* both with mutations.
C19_Witness ==
    \E t \in Threads : \E u \in Threads \ {t} :
        /\ th[t].result = "true" /\ th[u].result = "true"
        /\ th[u].oldRootShadowNode = th[t].newRootShadowNode
        /\ rootShadowNode_ = th[u].newRootShadowNode
        /\ th[t].mutations # <<>> /\ th[u].mutations # <<>>

(* C20 *)

\* Thread u's commit replaced the root thread t's commit had installed, and
\* both commits have mutations to deliver.
InstalledNextAfter(t, u) ==
    /\ fx[t].installed /\ fx[u].installed
    /\ th[u].oldRootShadowNode = th[t].newRootShadowNode
    /\ th[t].mutations # <<>> /\ th[u].mutations # <<>>

\* C20: of two successful commits, the one that installed its root second
\* has delivered its layout events and its mutation list to the delegate
\* only after the first has delivered its own.
C20_NotifiedInInstallOrder ==
    \A t \in Threads : \A u \in Threads \ {t} :
        (InstalledNextAfter(t, u) /\ th[u].result = "true")
        => th[t].result = "true"

====
